---- MODULE Spec2Model ----
(***************************************************************************)
(* Typecaster for Houdini: the bidirectional segmentation of one line      *)
(* (pythonlibs/typecaster/bidi_segmentation.py) and the per-glyph layout   *)
(* loop of output_geo_fast (pythonlibs/typecaster/outputCore.py).          *)
(*                                                                         *)
(* Text is a sequence of one-character strings.  The alphabet is           *)
(*   "a"  a Latin letter        (bidi class L)                             *)
(*   "A"  an Arabic letter      (bidi class AL)                            *)
(*   "1"  an ASCII digit        (bidi class EN)                            *)
(*   " "  a space               (bidi class WS)                            *)
(*   "\n" the line separator of src_text.split("\n")                       *)
(***************************************************************************)
EXTENDS Integers, Sequences, FiniteSets, Bags, TLC

(***************************************************************************)
(* Bounds of the model.                                                    *)
(***************************************************************************)
MaxSegLen == 4
MaxCalls == 2
MaxTextLen == 3
MaxPoints == 1
MaxPenCalls == 3
MaxRequests == 2

(***************************************************************************)
(* Generic sequence helpers (Python list operations).                      *)
(***************************************************************************)
Reverse(s) == [i \in 1..Len(s) |-> s[Len(s) + 1 - i]]

RECURSIVE SeqsUpTo(_, _)
SeqsUpTo(S, n) ==
  IF n = 0 THEN {<<>>}
  ELSE LET shorter == SeqsUpTo(S, n - 1)
       IN  shorter \cup {Append(s, x) : s \in {t \in shorter : Len(t) = n - 1}, x \in S}

RECURSIVE SumSeq(_)
SumSeq(s) == IF s = <<>> THEN 0 ELSE s[1] + SumSeq(Tail(s))

RECURSIVE SeqToBag(_)
SeqToBag(s) ==
  IF s = <<>> THEN EmptyBag ELSE SetToBag({s[1]}) (+) SeqToBag(Tail(s))

RECURSIVE Concat(_)
Concat(ss) == IF ss = <<>> THEN <<>> ELSE ss[1] \o Concat(Tail(ss))

(***************************************************************************)
(* python-bidi, as called by line_to_run_segments.  The alphabet holds no  *)
(* explicit embedding characters, no NSM, no separators and no             *)
(* terminators, so rules X2-X8, W1, W4, W5, W6 have nothing to act on.     *)
(***************************************************************************)
bidirectional(ch) ==
  CASE ch = "a" -> "L"
    [] ch = "A" -> "AL"
    [] ch = "1" -> "EN"
    [] OTHER    -> "WS"

\* P2, P3: the level of the first strong character, 0 when there is none.
RECURSIVE get_base_level(_)
get_base_level(text) ==
  IF text = <<>> THEN 0
  ELSE IF bidirectional(text[1]) \in {"AL", "R"} THEN 1
  ELSE IF bidirectional(text[1]) = "L" THEN 0
  ELSE get_base_level(Tail(text))

get_embedding_levels(text, base_level) ==
  [i \in 1..Len(text) |->
     [ch |-> text[i], level |-> base_level,
      type |-> bidirectional(text[i]), orig |-> bidirectional(text[i])]]

\* X1, X6: every character takes the current embedding level, which stays the
\* base level since nothing pushes a new one.
explicit_embed_and_overrides(chars, base_level) ==
  [i \in 1..Len(chars) |-> [chars[i] EXCEPT !.level = base_level]]

\* sor and eor of the single level run.
embedding_direction(level) == IF level % 2 = 1 THEN "R" ELSE "L"

\* The type of the last character before i whose type is in strong, else sor.
RECURSIVE prev_strong(_, _, _, _)
prev_strong(chars, i, strong, sor) ==
  IF i <= 1 THEN sor
  ELSE IF chars[i - 1].type \in strong THEN chars[i - 1].type
  ELSE prev_strong(chars, i - 1, strong, sor)

resolve_weak_types(chars, sor) ==
  LET w2 == [i \in 1..Len(chars) |->
               IF chars[i].type = "EN"
                  /\ prev_strong(chars, i, {"R", "L", "AL"}, sor) = "AL"
               THEN [chars[i] EXCEPT !.type = "AN"] ELSE chars[i]]
      w3 == [i \in 1..Len(chars) |->
               IF w2[i].type = "AL" THEN [w2[i] EXCEPT !.type = "R"] ELSE w2[i]]
      w7 == [i \in 1..Len(chars) |->
               IF w3[i].type = "EN" /\ prev_strong(w3, i, {"L", "R"}, sor) = "L"
               THEN [w3[i] EXCEPT !.type = "L"] ELSE w3[i]]
  IN  w7

Neutral == {"B", "S", "WS", "ON"}

\* The type bounding the neutral sequence that holds i, on the side given by
\* step (-1 before, +1 after); numbers count as R.
RECURSIVE neutral_bound(_, _, _, _)
neutral_bound(chars, i, step, edge) ==
  LET j == i + step
  IN  IF j < 1 \/ j > Len(chars) THEN edge
      ELSE IF chars[j].type \in Neutral THEN neutral_bound(chars, j, step, edge)
      ELSE IF chars[j].type \in {"AN", "EN"} THEN "R"
      ELSE chars[j].type

resolve_neutral_types(chars, sor, eor) ==
  [i \in 1..Len(chars) |->
     IF chars[i].type \in Neutral
     THEN LET p == neutral_bound(chars, i, -1, sor)
              n == neutral_bound(chars, i, 1, eor)
          IN  [chars[i] EXCEPT !.type =
                 IF p = n THEN p ELSE embedding_direction(chars[i].level)]
     ELSE chars[i]]

resolve_implicit_levels(chars) ==
  [i \in 1..Len(chars) |->
     IF embedding_direction(chars[i].level) = "L"
     THEN IF chars[i].type = "R" THEN [chars[i] EXCEPT !.level = @ + 1]
          ELSE IF chars[i].type # "L" THEN [chars[i] EXCEPT !.level = @ + 2]
          ELSE chars[i]
     ELSE IF chars[i].type # "R" THEN [chars[i] EXCEPT !.level = @ + 1]
          ELSE chars[i]]

\* L1: trailing whitespace goes back to the base level.
reset_trailing_whitespace(chars, base_level) ==
  [i \in 1..Len(chars) |->
     IF \A j \in i..Len(chars) : chars[j].orig \in {"BN", "WS"}
     THEN [chars[i] EXCEPT !.level = base_level] ELSE chars[i]]

\* L2 at one level: reverse every maximal contiguous sequence at that level
\* or higher.
reverse_contiguous_sequence(chars, level) ==
  LET n == Len(chars)
      InBlock(lo, hi) == \A k \in lo..hi : chars[k].level >= level
      First(i) == CHOOSE s \in 1..i :
                    InBlock(s, i) /\ \A t \in 1..(s - 1) : ~InBlock(t, i)
      Last(i) == CHOOSE e \in i..n :
                    InBlock(i, e) /\ \A t \in (e + 1)..n : ~InBlock(i, t)
  IN  [i \in 1..n |->
         IF chars[i].level >= level THEN chars[First(i) + Last(i) - i]
         ELSE chars[i]]

RECURSIVE reverse_levels(_, _, _)
reverse_levels(chars, level, lowest_odd_level) ==
  IF level < lowest_odd_level THEN chars
  ELSE reverse_levels(reverse_contiguous_sequence(chars, level),
                      level - 1, lowest_odd_level)

reorder_resolved_levels(chars, base_level) ==
  LET l1 == reset_trailing_whitespace(chars, base_level)
      levels == {l1[i].level : i \in 1..Len(l1)}
      odd == {l \in levels : l % 2 = 1}
      highest_level == IF levels = {} THEN 0
                       ELSE CHOOSE l \in levels : \A m \in levels : m <= l
  IN  IF odd = {} THEN l1
      ELSE reverse_levels(l1, highest_level,
                          CHOOSE l \in odd : \A m \in odd : l <= m)

\* storage['chars'] after the calls of lines 30-47.
storage_chars(line_text) ==
  LET base_level == get_base_level(line_text)
      dir == embedding_direction(base_level)
      c0 == get_embedding_levels(line_text, base_level)
      c1 == explicit_embed_and_overrides(c0, base_level)
      c2 == resolve_weak_types(c1, dir)
      c3 == resolve_neutral_types(c2, dir, dir)
      c4 == resolve_implicit_levels(c3)
  IN  reorder_resolved_levels(c4, base_level)

(***************************************************************************)
(* line_to_run_segments                                                    *)
(***************************************************************************)
\* Lines 74-86: the characters, in the order storage['chars'] holds them,
\* grouped by level % 2.  Each group is [value, sub].
RECURSIVE segmentation_from(_, _, _, _)
segmentation_from(chars, i, segmentation, llevel) ==
  IF i > Len(chars) THEN segmentation
  ELSE LET clevel == chars[i].level % 2
           sidx == Len(segmentation)
       IN  IF llevel # clevel
           THEN segmentation_from(chars, i + 1,
                  Append(segmentation, [value |-> clevel, sub |-> <<chars[i]>>]),
                  clevel)
           ELSE segmentation_from(chars, i + 1,
                  [segmentation EXCEPT ![sidx].sub = Append(@, chars[i])],
                  clevel)

\* The grouping with the "% 2" of line 80 left out.
RECURSIVE segmentation_by_level_from(_, _, _, _)
segmentation_by_level_from(chars, i, segmentation, llevel) ==
  IF i > Len(chars) THEN segmentation
  ELSE LET clevel == chars[i].level
           sidx == Len(segmentation)
       IN  IF llevel # clevel
           THEN segmentation_by_level_from(chars, i + 1,
                  Append(segmentation, [value |-> clevel, sub |-> <<chars[i]>>]),
                  clevel)
           ELSE segmentation_by_level_from(chars, i + 1,
                  [segmentation EXCEPT ![sidx].sub = Append(@, chars[i])],
                  clevel)

group_by_level(chars) == segmentation_by_level_from(chars, 1, <<>>, -1)

group_by_parity(chars) == segmentation_from(chars, 1, <<>>, -1)

\* Lines 97-102 as dir = "L" in both branches.
run_direction_always_L(value) == "L"

\* Lines 97-98 left out: the characters of every group in the stored order.
run_chars_as_stored(value, sub) == [i \in 1..Len(sub) |-> sub[i].ch]

\* Lines 96-102: the direction of a group and the order its characters are
\* read in.
run_direction(value) == IF value % 2 = 1 THEN "R" ELSE "L"

run_chars(value, sub) ==
  LET ordered == IF value % 2 = 1 THEN Reverse(sub) ELSE sub
  IN  [i \in 1..Len(ordered) |-> ordered[i].ch]

\* Lines 92-112: one run and one run_info entry per group; the run's start
\* index is the sum of the lengths of the runs made before it.
RECURSIVE make_runs(_, _, _)
make_runs(segmentation, isRTL, acc) ==
  IF segmentation = <<>> THEN acc
  ELSE LET value == segmentation[1].value
           runChars == run_chars(value, segmentation[1].sub)
       IN  make_runs(Tail(segmentation), isRTL,
             [reordered_segments |->
                Append(acc.reordered_segments,
                       [text |-> runChars, dir |-> run_direction(value),
                        value |-> value, index |-> acc.index]),
              run_info |->
                Append(acc.run_info,
                       [run_id |-> acc.run_id_current, odd |-> value % 2,
                        isRTL |-> isRTL]),
              run_id_current |-> acc.run_id_current + 1,
              index |-> acc.index + Len(runChars)])

\* Lines 114-117 left out.
keep_reversal(isRTL, s) == s

\* Lines 114-117: the reversal that is undone for a line whose base is RTL.
undo_reversal(isRTL, s) == IF isRTL = 1 THEN Reverse(s) ELSE s

\* Line 94 left out: every run of the call gets the cursor's value.
RECURSIVE make_runs_same_id(_, _, _)
make_runs_same_id(segmentation, isRTL, acc) ==
  IF segmentation = <<>> THEN acc
  ELSE LET value == segmentation[1].value
           runChars == run_chars(value, segmentation[1].sub)
       IN  make_runs_same_id(Tail(segmentation), isRTL,
             [reordered_segments |->
                Append(acc.reordered_segments,
                       [text |-> runChars, dir |-> run_direction(value),
                        value |-> value, index |-> acc.index]),
              run_info |->
                Append(acc.run_info,
                       [run_id |-> acc.run_id_current, odd |-> value % 2,
                        isRTL |-> isRTL]),
              run_id_current |-> acc.run_id_current,
              index |-> acc.index + Len(runChars)])

line_to_run_segments_same_id(line_text, run_id_current, run_info) ==
  LET isRTL == get_base_level(line_text) % 2
      grouped == group_by_parity(storage_chars(line_text))
      segmentation == IF isRTL = 1 THEN Reverse(grouped) ELSE grouped
      made == make_runs_same_id(segmentation, isRTL,
                [reordered_segments |-> <<>>, run_info |-> run_info,
                 run_id_current |-> run_id_current, index |-> 0])
  IN  [reordered_segments |-> undo_reversal(isRTL, made.reordered_segments),
       run_id_current |-> made.run_id_current + 1,
       run_info |-> undo_reversal(isRTL, made.run_info)]

\* Lines 18-119.  run_info is the list the caller passed, or the list object
\* the def statement made for the default when the caller passed none.
line_to_run_segments(line_text, run_id_current, run_info) ==
  LET isRTL == get_base_level(line_text) % 2
      grouped == group_by_parity(storage_chars(line_text))
      segmentation == IF isRTL = 1 THEN Reverse(grouped) ELSE grouped
      made == make_runs(segmentation, isRTL,
                [reordered_segments |-> <<>>, run_info |-> run_info,
                 run_id_current |-> run_id_current, index |-> 0])
  IN  [reordered_segments |-> undo_reversal(isRTL, made.reordered_segments),
       run_id_current |-> made.run_id_current,
       run_info |-> undo_reversal(isRTL, made.run_info)]

(***************************************************************************)
(* The shaper (fontgoggles / HarfBuzz), an external collaborator.  A call  *)
(* may return any glyph sequence the shaper contract allows: the text is   *)
(* cut into clusters (a ligature covers several characters), a cluster     *)
(* yields its base glyph and possibly a mark glyph of the same cluster,    *)
(* and a right-to-left run is returned in visual order, that is reversed.  *)
(***************************************************************************)
cmap(ch) ==
  CASE ch = "a" -> 1
    [] ch = "A" -> 2
    [] ch = "1" -> 3
    [] OTHER    -> 4

ord(ch) ==
  CASE ch = "a" -> 97
    [] ch = "A" -> 1575
    [] ch = "1" -> 49
    [] ch = " " -> 32
    [] OTHER    -> 10

\* hb_buffer_guess_segment_properties: the direction of the first character
\* that has a script of its own, left to right when there is none.
RECURSIVE guess_direction(_)
guess_direction(text) ==
  IF text = <<>> THEN "L"
  ELSE IF text[1] = "A" THEN "R"
  ELSE IF text[1] = "a" THEN "L"
  ELSE guess_direction(Tail(text))

\* Cluster values are 0-based offsets into the run text.
ClusterStarts(n) == {S \in SUBSET (0..(n - 1)) : 0 \in S}

cluster_end(S, s, n) ==
  LET later == {t \in S : t > s}
  IN  IF later = {} THEN n ELSE CHOOSE t \in later : \A u \in later : t <= u

RECURSIVE logical_glyphs(_, _, _, _)
logical_glyphs(text, S, M, from) ==
  IF from >= Len(text) THEN <<>>
  ELSE LET e == cluster_end(S, from, Len(text))
           base == [gid |-> IF e - from = 1 THEN cmap(text[from + 1])
                            ELSE 10 + cmap(text[from + 1]),
                    cluster |-> from, offset |-> 0]
           mark == [gid |-> 20, cluster |-> from, offset |-> 1]
       IN  (IF from \in M THEN <<base, mark>> ELSE <<base>>)
             \o logical_glyphs(text, S, M, e)

shape(text, direction, S, M) ==
  LET dir == IF direction = "auto" THEN guess_direction(text) ELSE direction
      glyphs == logical_glyphs(text, S, M, 0)
  IN  IF dir = "R" THEN Reverse(glyphs) ELSE glyphs

\* What the shaper may hand back for a run: any clustering of the text, or
\* no glyph at all (the shaper's answer to a text it cannot shape).
ShapeResults(text, direction) ==
  {shape(text, direction, S, M) :
     S \in ClusterStarts(Len(text)), M \in SUBSET (0..(Len(text) - 1))}
    \cup {<<>>}

\* Every way of shaping each segment of a line, as the list of glyph runs.
RECURSIVE GlyphRunChoices(_)
GlyphRunChoices(segments) ==
  IF segments = <<>> THEN {<<>>}
  ELSE {<<[glyphs |-> g, run_text |-> segments[1].text,
           run_start |-> segments[1].index]>> \o rest :
          g \in ShapeResults(segments[1].text, segments[1].dir),
          rest \in GlyphRunChoices(Tail(segments))}

(***************************************************************************)
(* output_geo_fast: pure parts of the layout loop.                         *)
(***************************************************************************)
\* src_text.split("\n")
RECURSIVE split_lines(_, _)
split_lines(text, current) ==
  IF text = <<>> THEN <<current>>
  ELSE IF text[1] = "\n" THEN <<current>> \o split_lines(Tail(text), <<>>)
  ELSE split_lines(Tail(text), Append(current, text[1]))

lines_of(text) == split_lines(text, <<>>)

\* Line 358.
is_reversed(glyph_run) == glyph_run[Len(glyph_run)].cluster < glyph_run[1].cluster

\* Lines 368-387: glyph_cluster_next, -1 when there is no next glyph.
cluster_next(glyph_run, glyph_idx) ==
  IF glyph_idx + 2 <= Len(glyph_run) THEN glyph_run[glyph_idx + 2].cluster ELSE -1

\* Lines 370-387.
clustersize_of(glyph_run, glyph_idx, run_text) ==
  LET glyph_cluster == glyph_run[glyph_idx + 1].cluster
  IN  IF is_reversed(glyph_run)
      THEN IF glyph_idx > 0
           THEN glyph_cluster - cluster_next(glyph_run, glyph_idx)
           ELSE Len(run_text) - glyph_cluster
      ELSE IF glyph_idx + 2 <= Len(glyph_run)
           THEN cluster_next(glyph_run, glyph_idx) - glyph_cluster
           ELSE Len(run_text) - glyph_cluster

\* Lines 229-262: the global variation coordinates of the request.
variations == [wght |-> 0]

\* Lines 392-402 as if an index past the end of the per-point data read the
\* last point.
glyph_variations_of_last_point(varying, points_data, idx) ==
  IF varying /\ points_data # <<>>
  THEN [variations EXCEPT !.wght = points_data[IF idx < Len(points_data)
                                               THEN idx + 1
                                               ELSE Len(points_data)]]
  ELSE variations

\* Lines 392-402: the variation coordinates of one glyph; an index past the
\* end of the per-point data is the IndexError that leaves the global ones.
glyph_variations_of(varying, points_data, idx) ==
  IF varying /\ idx < Len(points_data)
  THEN [variations EXCEPT !.wght = points_data[idx + 1]]
  ELSE variations

\* Line 483: f"glyph{glyph.gid}" + str(sorted(glyph_variations.items()))
dictstring_of(gid, glyph_variations) == <<"glyph", gid, glyph_variations.wght>>

\* Line 484: Python's str hash.  It is seeded per process; under seed 0 the
\* strings of this model hash to different values, under the other seeds two
\* of them share a value.
hash(seed, dictstring) ==
  IF seed = 0 THEN dictstring[2] * 10 + dictstring[3]
  ELSE (IF dictstring[2] = 2 THEN 1 ELSE dictstring[2]) * 10 + dictstring[3]

\* Line 593 as "stable_idx += 1".
counters_after_glyph_stable_by_one(stable, in_line, true, clustersize) ==
  [stable_idx |-> stable + 1,
   line_idx |-> in_line + clustersize,
   true_idx |-> true + 1]

\* Line 596 as "true_idx += clustersize".
counters_after_glyph_true_by_cluster(stable, in_line, true, clustersize) ==
  [stable_idx |-> stable + clustersize,
   line_idx |-> in_line + clustersize,
   true_idx |-> true + clustersize]

\* Lines 592-596: the counters after a glyph.
counters_after_glyph(stable, in_line, true, clustersize) ==
  [stable_idx |-> stable + clustersize,
   line_idx |-> in_line + clustersize,
   true_idx |-> true + 1]

\* Line 604 left out.
counters_after_line_no_break(stable, true, start, line_text) ==
  [stable_idx |-> stable,
   true_idx |-> true,
   linestart |-> start + Len(line_text) + 1]

\* Lines 600-604: the counters after a line.
counters_after_line(stable, true, start, line_text) ==
  [stable_idx |-> stable + 1,
   true_idx |-> true,
   linestart |-> start + Len(line_text) + 1]

\* Line 486: the id list of a glyph, and its entries by position.
ids_line_id(ids) == ids[1]
ids_stable_idx(ids) == ids[2]
ids_true_idx(ids) == ids[3]
ids_gid(ids) == ids[4]
ids_source_idx(ids) == ids[5]
ids_codepoint_lazy(ids) == ids[6]
ids_line_idx(ids) == ids[7]
ids_glyph_hash(ids) == ids[8]
ids_run_id(ids) == ids[9]

(***************************************************************************)
(* State.                                                                  *)
(***************************************************************************)
VARIABLES
  \* the request: parameters read at lines 120-122, 229-262, 324-325
  src_text, use_bidi_segmentation, varying_per_glyph, hpoints,
  \* the seed of the interpreter's str hash
  hashseed,
  \* position in the loops of lines 329-604
  pc, line_id, glyph_runs, run_info, current_runidx, glyph_idx,
  \* the counters of lines 318-322 and 364-365
  stable_idx, true_idx, linestart, run_id_current, line_idx, glyph_cluster_last,
  unique_glyphs, glyphqueue,
  \* the output geometry: skeleton points in creation order, the index of the
  \* current line's point, of the last standard glyph's point, and the ids of
  \* the glyph polygons
  points, linept, glyphpt_skel, glyphpolys,
  \* history: per processed glyph its id list, cluster size and cluster, and
  \* the number of calls of line_to_run_segments made by the request
  glyph_log, bidi_calls,
  \* a caller of line_to_run_segments on its own: the arguments of the
  \* call, what it returned, the number of calls made and the run ids
  \* handed out so far
  seg_pc, seg_line, seg_cursor, seg_out, seg_calls, seg_ids,
  \* the list object that is the default value of the run_info parameter of
  \* line_to_run_segments (line 18), made once when the module is loaded
  run_info_default,
  \* a pen of houdiniPen.py: its class, its ctrlpts attribute ("None" when
  \* it holds none), its accumulator, the points made in the geometry with
  \* the value written to each, whether a call has raised, and the calls
  \* made on the pen so far
  bezier_order, attrib_ctrlpts, ptsset, geo_points, pen_pc, pen_log,
  \* whether the pen was constructed with an attrib_ctrlpts argument, and
  \* whether its geometry had a ctrlpts point attribute at that time
  attrib_passed, geo_has_ctrlpts,
  \* the size record of one glyph (lines 149-156, 390-446, 495-511 of
  \* outputCore.py): the font's vmtx and OS/2 tables, whether kerning is
  \* active, whether the variation is per glyph, the reprocessing switch,
  \* the cap height the request settled on, the glyph's size record, and
  \* how far the computation got
  vmtx, os2, font_using_kern, per_glyph_mode, reprocess_for_glyphswap,
  sCapHeight, gsz, size_pc,
  \* what the two re-shapings of lines 404-427 gave at the index looked up
  \* ("unset" before the glyph is processed), and the id of the glyph the
  \* rest of the loop body works with (0 before)
  reshape_run, reshape_minimal, glyph_gid,
  \* the font of a request (lines 120-147 of outputCore.py, font.py): the
  \* file at the font path, the module's FontCache as the set of paths held,
  \* how far the request got, the exception that left it, the attributes
  \* added to the output geometry, and the number of requests made
  font_file, FontCache, font_pc, font_error, geo_attribs, font_requests

request_vars == <<src_text, use_bidi_segmentation, varying_per_glyph, hpoints, hashseed>>
loop_vars == <<pc, line_id, glyph_runs, run_info, current_runidx, glyph_idx,
               stable_idx, true_idx, linestart, run_id_current, line_idx,
               glyph_cluster_last, unique_glyphs, glyphqueue>>
geo_vars == <<points, linept, glyphpt_skel, glyphpolys>>
layout_vars == <<request_vars, loop_vars, geo_vars, glyph_log, bidi_calls>>
seg_vars == <<seg_pc, seg_line, seg_cursor, seg_out, seg_calls, seg_ids,
              run_info_default>>
pen_vars == <<bezier_order, attrib_ctrlpts, ptsset, geo_points, pen_pc, pen_log,
              attrib_passed, geo_has_ctrlpts>>
size_vars == <<vmtx, os2, font_using_kern, per_glyph_mode, reprocess_for_glyphswap,
               sCapHeight, gsz, size_pc, reshape_run, reshape_minimal, glyph_gid>>
font_vars == <<font_file, FontCache, font_pc, font_error, geo_attribs, font_requests>>
vars == <<layout_vars, seg_vars, pen_vars, size_vars, font_vars>>
\* What the actions of one part of the program leave alone.
outside_layout == <<seg_vars, pen_vars, size_vars, font_vars>>
outside_seg == <<layout_vars, pen_vars, size_vars, font_vars>>
outside_pen == <<layout_vars, seg_vars, size_vars, font_vars>>
outside_size == <<layout_vars, seg_vars, pen_vars, font_vars>>
outside_font == <<layout_vars, seg_vars, pen_vars, size_vars>>

LineChars == {"a", "A", "1", " "}
TextChars == {"a", "A", "\n"}
WghtVals == {0, 1}
HashSeeds == {0, 1}

NoResult == [reordered_segments |-> <<>>, run_id_current |-> 0, run_info |-> <<>>]

(***************************************************************************)
(* The layout request.                                                     *)
(***************************************************************************)
\* Lines 311-326: the block point, and the counters at zero.
LoopStart ==
  /\ pc = "line" /\ line_id = 0
  /\ glyph_runs = <<>> /\ run_info = <<>>
  /\ current_runidx = 0 /\ glyph_idx = 0
  /\ stable_idx = 0 /\ true_idx = 0 /\ linestart = 0 /\ run_id_current = 0
  /\ line_idx = 0 /\ glyph_cluster_last = -1
  /\ unique_glyphs = <<>> /\ glyphqueue = <<>>
  /\ points = <<[skeltype |-> "block", ids |-> <<>>, offset |-> 0, parent |-> 0]>>
  /\ linept = 0 /\ glyphpt_skel = 0 /\ glyphpolys = <<>>
  /\ glyph_log = <<>> /\ bidi_calls = 0

NoField == [has |-> FALSE, v |-> 0]

NoError == [kind |-> "none", names_path |-> FALSE]

FontIdle ==
  /\ font_file = [exists |-> TRUE, t1 |-> FALSE, converts |-> TRUE,
                  sniffed |-> TRUE, in_mappings |-> FALSE, parses |-> TRUE]
  /\ FontCache = {} /\ font_pc = "idle" /\ font_error = NoError
  /\ geo_attribs = <<>> /\ font_requests = 0

SizeIdle ==
  /\ vmtx = [table |-> FALSE, entry |-> NoField]
  /\ os2 = [table |-> FALSE, sCapHeight |-> NoField, sTypoAscender |-> NoField]
  /\ font_using_kern = FALSE /\ per_glyph_mode = FALSE
  /\ reprocess_for_glyphswap = FALSE
  /\ sCapHeight = 0 /\ gsz = <<>> /\ size_pc = "idle"
  /\ reshape_run = "unset" /\ reshape_minimal = "unset" /\ glyph_gid = 0

PenIdle ==
  /\ bezier_order = 0 /\ attrib_ctrlpts = "None" /\ ptsset = <<>>
  /\ geo_points = <<>> /\ pen_pc = "idle" /\ pen_log = <<>>
  /\ attrib_passed = FALSE /\ geo_has_ctrlpts = FALSE

SegIdle ==
  /\ seg_pc = "idle" /\ seg_line = <<>> /\ seg_cursor = 0
  /\ seg_out = NoResult /\ seg_calls = 0 /\ seg_ids = <<>>
  /\ run_info_default = <<>>

Init ==
  /\ src_text \in SeqsUpTo(TextChars, MaxTextLen)
  /\ use_bidi_segmentation \in BOOLEAN
  /\ varying_per_glyph \in BOOLEAN
  /\ hpoints \in IF varying_per_glyph THEN SeqsUpTo(WghtVals, MaxPoints) ELSE {<<>>}
  /\ hashseed \in HashSeeds
  /\ LoopStart
  /\ SegIdle
  /\ PenIdle
  /\ SizeIdle
  /\ FontIdle

\* Lines 274-284: newline(line_id).
newline(pts, id) ==
  Append(pts, [skeltype |-> "line", ids |-> <<id>>, offset |-> 0, parent |-> 1])

\* Lines 286-296: new_glyphpt_skel.
new_glyphpt_skel(pts, line_point, ids, offset) ==
  Append(pts, [skeltype |-> "glyph", ids |-> ids, offset |-> offset,
               parent |-> line_point])

\* Lines 298-308 and 550-551: one extension point per queued entry, each
\* joined to the target point by a polygon of its own.
RECURSIVE new_glyphpt_skel_extensions(_, _, _)
new_glyphpt_skel_extensions(pts, queue, target_glyphpt_skel) ==
  IF queue = <<>> THEN pts
  ELSE new_glyphpt_skel_extensions(
         Append(pts, [skeltype |-> "glyphextension", ids |-> queue[1].ids,
                      offset |-> queue[1].offset, parent |-> target_glyphpt_skel]),
         Tail(queue), target_glyphpt_skel)

\* Lines 513-538: whether the glyph gets a point of its own now.
run_standard_glyph(glyph_run, glyph_idx_, cluster_last) ==
  LET glyph_cluster == glyph_run[glyph_idx_ + 1].cluster
  IN  IF is_reversed(glyph_run)
      THEN glyph_cluster # cluster_next(glyph_run, glyph_idx_)
      ELSE glyph_cluster # cluster_last

\* Lines 329-353: the head of the loop over the lines.
NewLine ==
  /\ pc = "line"
  /\ LET line_text == lines_of(src_text)[line_id + 1]
         seg == IF use_bidi_segmentation
                THEN line_to_run_segments(line_text, run_id_current, <<>>)
                ELSE [reordered_segments |->
                        IF line_text # <<>>
                        THEN <<[text |-> line_text, dir |-> "auto",
                                value |-> 0, index |-> 0]>>
                        ELSE <<>>,
                      run_id_current |-> run_id_current,
                      run_info |-> run_info]
     IN  /\ points' = newline(points, line_id)
         /\ linept' = Len(points) + 1
         /\ run_id_current' = seg.run_id_current
         /\ run_info' = seg.run_info
         /\ bidi_calls' = IF use_bidi_segmentation THEN bidi_calls + 1 ELSE bidi_calls
         /\ glyph_runs' \in GlyphRunChoices(seg.reordered_segments)
         /\ glyphqueue' = <<>>
         /\ current_runidx' = 0
         /\ glyph_idx' = 0
         /\ pc' = IF seg.reordered_segments = <<>> THEN "lineend" ELSE "glyph"
  /\ UNCHANGED <<request_vars, line_id, stable_idx, true_idx, linestart, line_idx,
                 glyph_cluster_last, unique_glyphs, glyphpt_skel, glyphpolys,
                 glyph_log, outside_layout>>

\* Lines 354-598: one pass of the loop over the glyphs of a run, with the
\* head of the loop over the runs (lines 355-365) when it is the run's first.
GlyphStep ==
  /\ pc = "glyph"
  /\ glyph_runs[current_runidx + 1].glyphs # <<>>
  /\ LET run == glyph_runs[current_runidx + 1]
         glyph_run == run.glyphs
         run_text == run.run_text
         run_start_full == linestart + run.run_start
         cluster_last == IF glyph_idx = 0 THEN -1 ELSE glyph_cluster_last
         line_idx_now == IF glyph_idx = 0 THEN 0 ELSE line_idx
         glyph == glyph_run[glyph_idx + 1]
         glyph_cluster == glyph.cluster
         clustersize == clustersize_of(glyph_run, glyph_idx, run_text)
         glyph_variations == glyph_variations_of(varying_per_glyph, hpoints, stable_idx)
         codepoint_lazy == ord(run_text[glyph_cluster + 1])
         source_idx == run_start_full + glyph_cluster
         glyph_hash == hash(hashseed, dictstring_of(glyph.gid, glyph_variations))
         run_id == IF use_bidi_segmentation
                   THEN run_info[current_runidx + 1].run_id ELSE line_id
         ids == <<line_id, stable_idx, true_idx, glyph.gid, source_idx,
                  codepoint_lazy, line_idx_now, glyph_hash, run_id>>
         glyph_already_exists == glyph_hash \in DOMAIN unique_glyphs
         standard == run_standard_glyph(glyph_run, glyph_idx, cluster_last)
         queued == IF standard THEN glyphqueue
                   ELSE Append(glyphqueue, [ids |-> ids, offset |-> glyph.offset])
         after == counters_after_glyph(stable_idx, line_idx_now, true_idx, clustersize)
         last_of_run == glyph_idx + 1 = Len(glyph_run)
         last_of_line == last_of_run /\ current_runidx + 1 = Len(glyph_runs)
     IN  /\ unique_glyphs' =
               IF glyph_already_exists
               THEN [unique_glyphs EXCEPT ![glyph_hash] = @ + 1]
               ELSE [h \in DOMAIN unique_glyphs \cup {glyph_hash} |->
                       IF h = glyph_hash THEN 1 ELSE unique_glyphs[h]]
         /\ IF standard
            THEN /\ points' = new_glyphpt_skel_extensions(
                                new_glyphpt_skel(points, linept, ids, glyph.offset),
                                queued, Len(points) + 1)
                 /\ glyphpt_skel' = Len(points) + 1
                 /\ glyphqueue' = <<>>
            ELSE /\ glyphqueue' = queued
                 /\ UNCHANGED <<points, glyphpt_skel>>
         /\ glyphpolys' = IF glyph_already_exists THEN glyphpolys
                          ELSE Append(glyphpolys, ids)
         /\ stable_idx' = after.stable_idx
         /\ line_idx' = after.line_idx
         /\ true_idx' = after.true_idx
         /\ glyph_cluster_last' = glyph_cluster
         /\ glyph_log' = Append(glyph_log,
                           [ids |-> ids, clustersize |-> clustersize,
                            cluster |-> glyph_cluster, run_text |-> run_text,
                            run_clusters |-> [k \in 1..Len(glyph_run) |->
                                                glyph_run[k].cluster],
                            variations |-> glyph_variations,
                            reversed |-> is_reversed(glyph_run),
                            standard |-> standard])
         /\ glyph_idx' = IF last_of_run THEN 0 ELSE glyph_idx + 1
         /\ current_runidx' = IF last_of_run /\ ~last_of_line
                              THEN current_runidx + 1 ELSE current_runidx
         /\ pc' = IF last_of_line THEN "lineend" ELSE "glyph"
  /\ UNCHANGED <<request_vars, line_id, glyph_runs, run_info, linestart,
                 run_id_current, linept, bidi_calls, outside_layout>>

\* Lines 600-604, and the step of the loop over the lines.
LineEnd ==
  /\ pc = "lineend"
  /\ LET after == counters_after_line(stable_idx, true_idx, linestart,
                                      lines_of(src_text)[line_id + 1])
     IN  /\ linestart' = after.linestart
         /\ stable_idx' = after.stable_idx
         /\ true_idx' = after.true_idx
  /\ line_id' = line_id + 1
  /\ pc' = IF line_id + 1 = Len(lines_of(src_text)) THEN "done" ELSE "line"
  /\ UNCHANGED <<request_vars, glyph_runs, run_info, current_runidx, glyph_idx,
                 run_id_current, line_idx, glyph_cluster_last,
                 unique_glyphs, glyphqueue, geo_vars, glyph_log, bidi_calls,
                 outside_layout>>

\* Lines 354-359: the head of the loop over the runs reads glyph_run[-1] and
\* glyph_run[0]; on a run without glyphs the read raises IndexError, which
\* nothing catches, and the request ends there with the geometry as it is.
RunHeadRaise ==
  /\ pc = "glyph"
  /\ glyph_runs[current_runidx + 1].glyphs = <<>>
  /\ pc' = "raised"
  /\ UNCHANGED <<request_vars, line_id, glyph_runs, run_info, current_runidx,
                 glyph_idx, stable_idx, true_idx, linestart, run_id_current,
                 line_idx, glyph_cluster_last, unique_glyphs, glyphqueue,
                 geo_vars, glyph_log, bidi_calls, outside_layout>>

Next == NewLine \/ GlyphStep \/ RunHeadRaise \/ LineEnd

Spec == Init /\ [][Next]_vars

(***************************************************************************)
(* line_to_run_segments on its own: a caller that segments line after      *)
(* line, handing each call the cursor the call before returned and an      *)
(* empty run_info list, as lines 345-346 of outputCore.py do.               *)
(***************************************************************************)
LayoutIdle ==
  /\ src_text = <<>> /\ use_bidi_segmentation = TRUE
  /\ varying_per_glyph = FALSE /\ hpoints = <<>> /\ hashseed = 0
  /\ pc = "idle" /\ line_id = 0
  /\ glyph_runs = <<>> /\ run_info = <<>>
  /\ current_runidx = 0 /\ glyph_idx = 0
  /\ stable_idx = 0 /\ true_idx = 0 /\ linestart = 0 /\ run_id_current = 0
  /\ line_idx = 0 /\ glyph_cluster_last = -1
  /\ unique_glyphs = <<>> /\ glyphqueue = <<>>
  /\ points = <<>> /\ linept = 0 /\ glyphpt_skel = 0 /\ glyphpolys = <<>>
  /\ glyph_log = <<>> /\ bidi_calls = 0

SegInit ==
  /\ seg_pc = "ready"
  /\ seg_line = <<>>
  /\ seg_cursor = 0
  /\ seg_out = NoResult /\ seg_calls = 0 /\ seg_ids = <<>>
  /\ run_info_default = <<>>
  /\ LayoutIdle
  /\ PenIdle
  /\ SizeIdle
  /\ FontIdle

\* One call, on any line, with the caller's cursor and an empty run_info.
SegCall ==
  /\ seg_pc = "ready"
  /\ seg_calls < MaxCalls
  /\ \E line_text \in SeqsUpTo(LineChars, MaxSegLen) :
       /\ seg_line' = line_text
       /\ seg_out' = line_to_run_segments(line_text, seg_cursor, <<>>)
  /\ seg_ids' = seg_ids \o [i \in 1..Len(seg_out'.run_info) |->
                              seg_out'.run_info[i].run_id]
  /\ seg_calls' = seg_calls + 1
  /\ seg_pc' = "returned"
  /\ UNCHANGED <<seg_cursor, run_info_default, outside_seg>>

\* The caller keeps the returned cursor for the next line.
SegNextLine ==
  /\ seg_pc = "returned"
  /\ seg_cursor' = seg_out.run_id_current
  /\ seg_line' = <<>>
  /\ seg_out' = NoResult
  /\ seg_pc' = "ready"
  /\ UNCHANGED <<seg_calls, seg_ids, run_info_default, outside_seg>>

SegNext == SegCall \/ SegNextLine

SegSpec == SegInit /\ [][SegNext]_vars

(***************************************************************************)
(* A caller that may leave out the run_info argument.  The parameter is    *)
(* then bound to the default list object, which the call appends to and    *)
(* reverses in place (lines 93 and 117) and returns.                       *)
(***************************************************************************)
SegCallDefault ==
  /\ seg_pc = "ready"
  /\ seg_calls < MaxCalls
  /\ \E line_text \in SeqsUpTo(LineChars, MaxSegLen) :
       /\ seg_line' = line_text
       /\ seg_out' = line_to_run_segments(line_text, seg_cursor, run_info_default)
  /\ run_info_default' = seg_out'.run_info
  /\ seg_calls' = seg_calls + 1
  /\ seg_pc' = "returned"
  /\ UNCHANGED <<seg_cursor, seg_ids, outside_seg>>

DefaultNext == SegCall \/ SegCallDefault \/ SegNextLine

DefaultSpec == SegInit /\ [][DefaultNext]_vars

(***************************************************************************)
(* The pens of houdiniPen.py.  A pen is made for a geometry, with or       *)
(* without an attrib_ctrlpts argument, and is then driven by the calls of  *)
(* an outline: moveTo, lineTo, qCurveTo, curveTo, closePath, endPath.      *)
(***************************************************************************)
\* The points an outline passes to the pen, as (x, y).
PenPoints == {<<1, 2>>, <<3, 4>>}

\* Lines 101-108: HoudiniQuadraticPen.
QuadraticPen_moveTo(pt1) == <<pt1[1], pt1[2], pt1[1], pt1[2]>>
QuadraticPen_lineTo(pt1) == <<pt1[1], pt1[2], pt1[1], pt1[2]>>
QuadraticPen_qCurveTo(pt1, pt2) == <<pt1[1], pt1[2], pt2[1], pt2[2]>>

\* Line 135 as [pt1, pt1, pt2].
CubicPen_qCurveTo_control_twice(pt1, pt2) ==
  <<pt1[1], pt1[2], pt1[1], pt1[2], pt2[1], pt2[2]>>

\* Lines 124-135: HoudiniCubicPen.
CubicPen_moveTo(pt1) == <<pt1[1], pt1[2], pt1[1], pt1[2], pt1[1], pt1[2]>>
CubicPen_lineTo(pt1) == <<pt1[1], pt1[2], pt1[1], pt1[2], pt1[1], pt1[2]>>
CubicPen_curveTo(pt1, pt2, pt3) == <<pt1[1], pt1[2], pt2[1], pt2[2], pt3[1], pt3[2]>>
CubicPen_qCurveTo(pt1, pt2) == <<pt1[1], pt1[2], pt2[1], pt2[2], pt2[1], pt2[2]>>

\* Lines 25-54: __init__.  With an attrib_ctrlpts argument the pen keeps it.
\* Without one it looks the attribute up in the geometry; when the lookup
\* finds one (line 51, "is not None") it adds the attribute again, which
\* the host either answers with the attribute or refuses by raising; when
\* the lookup finds none the pen keeps None.
PenInit ==
  /\ bezier_order \in {3, 4}
  /\ attrib_passed \in BOOLEAN
  /\ geo_has_ctrlpts \in BOOLEAN
  /\ IF attrib_passed
     THEN attrib_ctrlpts = "ctrlpts" /\ pen_pc = "open"
     ELSE IF geo_has_ctrlpts
          THEN attrib_ctrlpts = "ctrlpts" /\ pen_pc \in {"open", "raised"}
          ELSE attrib_ctrlpts = "None" /\ pen_pc = "open"
  /\ ptsset = <<>> /\ geo_points = <<>> /\ pen_log = <<>>
  /\ LayoutIdle
  /\ SegIdle
  /\ SizeIdle
  /\ FontIdle

PenCanCall == pen_pc = "open" /\ Len(pen_log) < MaxPenCalls

\* A call that extends the accumulator (ptsset.extend).
PenExtend(op, pts, floats) ==
  /\ ptsset' = ptsset \o floats
  /\ pen_log' = Append(pen_log, [op |-> op, pts |-> pts, raised |-> FALSE])
  /\ UNCHANGED <<bezier_order, attrib_ctrlpts, attrib_passed, geo_has_ctrlpts,
                 geo_points, pen_pc>>

\* A call that raises before it changes anything.
PenRaise(op, pts) ==
  /\ pen_pc' = "raised"
  /\ pen_log' = Append(pen_log, [op |-> op, pts |-> pts, raised |-> TRUE])
  /\ UNCHANGED <<bezier_order, attrib_ctrlpts, attrib_passed, geo_has_ctrlpts,
                 ptsset, geo_points>>

PenMoveTo ==
  /\ PenCanCall
  /\ \E pt1 \in PenPoints :
       PenExtend("moveTo", <<pt1>>,
                 IF bezier_order = 3 THEN QuadraticPen_moveTo(pt1)
                 ELSE CubicPen_moveTo(pt1))
  /\ UNCHANGED outside_pen

PenLineTo ==
  /\ PenCanCall
  /\ \E pt1 \in PenPoints :
       PenExtend("lineTo", <<pt1>>,
                 IF bezier_order = 3 THEN QuadraticPen_lineTo(pt1)
                 ELSE CubicPen_lineTo(pt1))
  /\ UNCHANGED outside_pen

PenQCurveTo ==
  /\ PenCanCall
  /\ \E pt1, pt2 \in PenPoints :
       PenExtend("qCurveTo", <<pt1, pt2>>,
                 IF bezier_order = 3 THEN QuadraticPen_qCurveTo(pt1, pt2)
                 ELSE CubicPen_qCurveTo(pt1, pt2))
  /\ UNCHANGED outside_pen

\* Lines 70-71 and 130-131: the quadratic pen inherits the curveTo that
\* raises NotImplementedError.
PenCurveTo ==
  /\ PenCanCall
  /\ \E pt1, pt2, pt3 \in PenPoints :
       IF bezier_order = 3
       THEN PenRaise("curveTo", <<pt1, pt2, pt3>>)
       ELSE PenExtend("curveTo", <<pt1, pt2, pt3>>, CubicPen_curveTo(pt1, pt2, pt3))
  /\ UNCHANGED outside_pen

\* Lines 56-62: closePath makes the point, then writes the accumulator to
\* the pen's attribute, then clears the accumulator.  Writing to no
\* attribute raises, after the point was made.
PenClosePath ==
  /\ PenCanCall
  /\ pen_log' = Append(pen_log, [op |-> "closePath", pts |-> <<>>,
                                 raised |-> attrib_ctrlpts = "None"])
  /\ IF attrib_ctrlpts # "None"
     THEN /\ geo_points' = Append(geo_points, [written |-> TRUE, ctrlpts |-> ptsset])
          /\ ptsset' = <<>>
          /\ UNCHANGED pen_pc
     ELSE /\ geo_points' = Append(geo_points, [written |-> FALSE, ctrlpts |-> <<>>])
          /\ pen_pc' = "raised"
          /\ UNCHANGED ptsset
  /\ UNCHANGED <<bezier_order, attrib_ctrlpts, attrib_passed, geo_has_ctrlpts,
                 outside_pen>>

\* Lines 64-65: endPath raises NotImplementedError.
PenEndPath ==
  /\ PenCanCall
  /\ PenRaise("endPath", <<>>)
  /\ UNCHANGED outside_pen

PenNext ==
  \/ PenMoveTo \/ PenLineTo \/ PenQCurveTo \/ PenCurveTo
  \/ PenClosePath \/ PenEndPath

PenSpec == PenInit /\ [][PenNext]_vars

(***************************************************************************)
(* The size record (gsz) of a glyph: the cap height the request settles on *)
(* at lines 149-156, the advance of lines 390-446 and the record built at  *)
(* lines 495-511.  A font table or a field of it may be absent; a field    *)
(* that is present holds 0 or a value.                                     *)
(***************************************************************************)
\* glyph.ax of a run shaped with the kern feature, and the advance
\* get_glyph_h_advance gives for the glyph on its own.
KernedAdvance == 5
PlainAdvance == 6

FieldVals(value) == {NoField, [has |-> TRUE, v |-> 0], [has |-> TRUE, v |-> value]}

VmtxTables ==
  {[table |-> FALSE, entry |-> NoField]}
    \cup {[table |-> TRUE, entry |-> e] : e \in FieldVals(900)}

Os2Tables ==
  {[table |-> FALSE, sCapHeight |-> NoField, sTypoAscender |-> NoField]}
    \cup {[table |-> TRUE, sCapHeight |-> c, sTypoAscender |-> a] :
            c \in FieldVals(700), a \in FieldVals(800)}

\* Lines 155-156.
cap_height_of(table) ==
  LET cap == IF table.sCapHeight.has THEN table.sCapHeight.v ELSE 0
  IN  IF cap = 0
      THEN (IF table.sTypoAscender.has THEN table.sTypoAscender.v ELSE 750)
      ELSE cap

\* Lines 498-503, for a glyph that vmtx.metrics has an entry for when there
\* is a vmtx table.
glyph_height(table, cap) ==
  IF table.table
  THEN (IF table.entry.v = 0 THEN cap ELSE table.entry.v)
  ELSE cap

\* glyph.ax as the shaper returned it for the run.
shaped_ax(kern) == IF kern THEN KernedAdvance ELSE PlainAdvance

\* Lines 392-443: the advance of the glyph.  reshape_found says whether the
\* re-shaped run has a glyph at the index looked up (line 408), same_name
\* whether the glyph of the minimal text has the name of the original
\* (line 431).
glyph_ax(per_glyph, kern, reprocess, reshape_found, same_name) ==
  IF ~per_glyph THEN shaped_ax(kern)
  ELSE LET needs_run == ~(reprocess /\ reshape_found)
       IN  IF kern /\ needs_run
           THEN (IF same_name THEN shaped_ax(kern) ELSE PlainAdvance)
           ELSE PlainAdvance

\* Lines 444-446 run in both modes.
ax_nokern_in_both_modes(per_glyph, kern) ==
  IF kern THEN [has |-> TRUE, v |-> PlainAdvance] ELSE NoField

\* Lines 391 and 444-446: ax_nokern, None unless the else branch of
\* "if varying_per_glyph" sets it.
ax_nokern_of(per_glyph, kern) ==
  IF ~per_glyph /\ kern THEN [has |-> TRUE, v |-> PlainAdvance] ELSE NoField

\* Lines 498-511: the size record.
gsz_of(ax, height, kern, ax_nokern) ==
  IF kern /\ ax_nokern.has
  THEN <<ax, height, ax_nokern.v, height>>
  ELSE <<ax, height>>

SizeInit ==
  /\ vmtx \in VmtxTables
  /\ os2 \in Os2Tables
  /\ font_using_kern \in BOOLEAN
  /\ per_glyph_mode \in BOOLEAN
  /\ reprocess_for_glyphswap \in BOOLEAN
  /\ sCapHeight = 0 /\ gsz = <<>> /\ size_pc = "setup"
  /\ reshape_run = "unset" /\ reshape_minimal = "unset" /\ glyph_gid = 0
  /\ LayoutIdle
  /\ SegIdle
  /\ PenIdle
  /\ FontIdle

\* Lines 149-156: without an OS/2 table the request raises
\* NotImplementedError.
SizeSetup ==
  /\ size_pc = "setup"
  /\ IF os2.table
     THEN sCapHeight' = cap_height_of(os2) /\ size_pc' = "glyph"
     ELSE size_pc' = "raised" /\ UNCHANGED sCapHeight
  /\ UNCHANGED <<vmtx, os2, font_using_kern, per_glyph_mode,
                 reprocess_for_glyphswap, gsz, reshape_run, reshape_minimal,
                 glyph_gid, outside_size>>

\* The glyph the shaper gave for the run, and another glyph of the font.
OriginalGid == 1
OtherGid == 2

\* What a re-shaping has at the index looked up: no glyph (IndexError), the
\* glyph of the original, or another glyph.
Lookups == {"none", "same", "other"}

\* Lines 404-412: whether the kerning recovery is still to run after the
\* re-shaping of the run.
needs_run(reprocess, run_lookup) == ~(reprocess /\ run_lookup # "none")

\* Lines 392-443: the id of the glyph after the advance is settled.  The
\* glyph of the re-shaped run replaces the original at line 408 whatever it
\* is; the glyph of the minimal text replaces it at line 434 when it has the
\* original's name, and so its id.
glyph_after(per_glyph, reprocess, run_lookup) ==
  IF per_glyph /\ reprocess /\ run_lookup = "other" THEN OtherGid ELSE OriginalGid

\* Line 427: shape(minimal_text_approx, ...)[0] stands outside any try; with
\* no glyph in the result the subscript raises IndexError.
recovery_raises(per_glyph, kern, reprocess, run_lookup, minimal_lookup) ==
  per_glyph /\ kern /\ needs_run(reprocess, run_lookup) /\ minimal_lookup = "none"

\* Lines 390-446 and 495-511 for one glyph.  With a vmtx table that has no
\* entry for the glyph, vmtx.metrics.get(glyph_name, 0)[0] subscripts the
\* integer 0 and raises TypeError.
SizeGlyph ==
  /\ size_pc = "glyph"
  /\ \E run_lookup, minimal_lookup \in Lookups :
       /\ reshape_run' = run_lookup
       /\ reshape_minimal' = minimal_lookup
       /\ IF recovery_raises(per_glyph_mode, font_using_kern,
                             reprocess_for_glyphswap, run_lookup, minimal_lookup)
          THEN size_pc' = "raised" /\ UNCHANGED <<gsz, glyph_gid>>
          ELSE /\ glyph_gid' = glyph_after(per_glyph_mode, reprocess_for_glyphswap,
                                           run_lookup)
               /\ IF vmtx.table /\ ~vmtx.entry.has
                  THEN size_pc' = "raised" /\ UNCHANGED gsz
                  ELSE /\ gsz' = gsz_of(glyph_ax(per_glyph_mode, font_using_kern,
                                                reprocess_for_glyphswap,
                                                run_lookup # "none",
                                                minimal_lookup = "same"),
                                       glyph_height(vmtx, sCapHeight),
                                       font_using_kern,
                                       ax_nokern_of(per_glyph_mode, font_using_kern))
                       /\ size_pc' = "done"
  /\ UNCHANGED <<vmtx, os2, font_using_kern, per_glyph_mode,
                 reprocess_for_glyphswap, sCapHeight, outside_size>>

SizeNext == SizeSetup \/ SizeGlyph

SizeSpec == SizeInit /\ [][SizeNext]_vars

(***************************************************************************)
(* The font of a request: Font.Cacheable and Font.__init__ of font.py, and *)
(* the handler around the call at lines 124-129 of outputCore.py.  The     *)
(* file at the font path may be missing, may be a Type 1 file that         *)
(* converts or does not, may be of a type sniffFontType knows or one that  *)
(* only the name mappings know, and may load or raise TTLibError.          *)
(***************************************************************************)
FontFiles ==
  [exists : BOOLEAN, t1 : BOOLEAN, converts : BOOLEAN, sniffed : BOOLEAN,
   in_mappings : BOOLEAN, parses : BOOLEAN]

FontPath == "font_info[0]"

\* font.py 27-50: getOpener raises FontInitFailure for a file of no known
\* type; called with the key "otf" it finds the opener.
getOpener(file, openerKey) ==
  IF openerKey = "None" /\ ~file.sniffed /\ ~file.in_mappings
  THEN "FontInitFailure" ELSE "none"

\* font.py 98-107: load turns TTLibError into FontInitFailure.
load(file) == IF file.parses THEN "none" ELSE "FontInitFailure"

\* font.py 70-88: the exception Font.__init__ leaves with, "none" when the
\* font is made.
Font(file) ==
  IF ~file.exists THEN "FontNotFoundException"
  ELSE IF file.t1 /\ ~file.converts THEN "FontInitFailure"
  ELSE IF getOpener(file, IF file.t1 THEN "otf" ELSE "None") # "none"
       THEN "FontInitFailure"
  ELSE load(file)

\* font.py 240-265: a font in FontCache is returned as it is.
Cacheable(cache, file) == IF FontPath \in cache THEN "none" ELSE Font(file)

\* Lines 124-129: FontNotFoundException becomes a hou.NodeError whose message
\* holds the font path; any other exception leaves the request as it is.
handled(exception) ==
  IF exception = "FontNotFoundException"
  THEN [kind |-> "NodeError", names_path |-> TRUE]
  ELSE IF exception = "none" THEN NoError
  ELSE [kind |-> exception, names_path |-> FALSE]

\* Lines 137-147: the attributes and the group added to the output geometry.
GeoAttribs == <<"ctrlpts", "ids", "prim_ids", "skeltype", "gsz", "gshift", "skeleton">>

FontInit ==
  /\ font_file \in FontFiles
  /\ FontCache = {} /\ font_pc = "start" /\ font_error = NoError
  /\ geo_attribs = <<>> /\ font_requests = 0
  /\ LayoutIdle
  /\ SegIdle
  /\ PenIdle
  /\ SizeIdle

\* Lines 120-147 of a request: the font is fetched, and the attributes are
\* added when that did not raise.
FontLoad ==
  /\ font_pc = "start"
  /\ LET exception == Cacheable(FontCache, font_file)
     IN  /\ font_error' = handled(exception)
         /\ FontCache' = IF exception = "none" THEN FontCache \cup {FontPath}
                          ELSE FontCache
         /\ geo_attribs' = IF exception = "none" THEN GeoAttribs ELSE <<>>
         /\ font_pc' = IF exception = "none" THEN "loaded" ELSE "raised"
  /\ font_requests' = font_requests + 1
  /\ UNCHANGED <<font_file, outside_font>>

\* The next cook of the node: a new request on an empty output geometry,
\* with the file at the font path as it is by then.
FontNextRequest ==
  /\ font_pc \in {"loaded", "raised"}
  /\ font_requests < MaxRequests
  /\ font_file' \in FontFiles
  /\ font_pc' = "start" /\ font_error' = NoError /\ geo_attribs' = <<>>
  /\ UNCHANGED <<FontCache, font_requests, outside_font>>

FontNext == FontLoad \/ FontNextRequest

FontSpec == FontInit /\ [][FontNext]_vars

(***************************************************************************)
(* Properties of line_to_run_segments, checked under SegSpec.              *)
(***************************************************************************)
SegRuns == seg_out.reordered_segments
SegInfo == seg_out.run_info
SegTexts == [i \in 1..Len(SegRuns) |-> SegRuns[i].text]
SegLengths == [i \in 1..Len(SegRuns) |-> Len(SegRuns[i].text)]
\* The characters of a run in the order storage['chars'] holds them.
RunAsStored(run) == IF run.dir = "R" THEN Reverse(run.text) ELSE run.text
\* Where the run begins in storage['chars'].
StoredOffset(i) == SumSeq(SubSeq(SegLengths, 1, i - 1))

ArabicThenDigit(line) ==
  /\ Len(line) >= 2
  /\ line[Len(line)] = "1"
  /\ \A k \in 1..(Len(line) - 1) : line[k] = "A"

\* C5 as stated: for such a line the Arabic run comes first in the returned
\* list, the digit run second, and the first run_info entry is marked odd
\* with an RTL base.
C5_ArabicRunFirst ==
  (seg_pc = "returned" /\ ArabicThenDigit(seg_line)) =>
    /\ Len(SegRuns) = 2
    /\ SegRuns[1].dir = "R" /\ SegRuns[1].text = SubSeq(seg_line, 1, Len(seg_line) - 1)
    /\ SegRuns[2].dir = "L" /\ SegRuns[2].text = <<"1">>
    /\ SegInfo[1].odd = 1 /\ SegInfo[1].isRTL = 1

\* C5 as amended: the digit run comes first in the returned list and the
\* Arabic run second (the order of lines 115-117), each with its start in
\* the line, and the run_info list is in the same order: its first entry is
\* the digit run's, even, with the later run id, its second the Arabic
\* run's, odd, with the earlier one; both carry the RTL base.
C5_DigitRunFirst ==
  (seg_pc = "returned" /\ ArabicThenDigit(seg_line)) =>
    /\ SegRuns = <<[text |-> <<"1">>, dir |-> "L", value |-> 0,
                    index |-> Len(seg_line) - 1],
                   [text |-> SubSeq(seg_line, 1, Len(seg_line) - 1), dir |-> "R",
                    value |-> 1, index |-> 0]>>
    /\ SegInfo = <<[run_id |-> seg_cursor + 1, odd |-> 0, isRTL |-> 1],
                   [run_id |-> seg_cursor, odd |-> 1, isRTL |-> 1]>>

C5_Witness ==
  /\ seg_pc = "returned"
  /\ ArabicThenDigit(seg_line)
  /\ Len(seg_line) >= 3
  /\ seg_cursor > 0

\* C6: a call with cursor c that makes n runs gives them the ids c..c+n-1,
\* one each, and returns c+n; an empty line gives no run and returns c; over
\* the calls of a caller that threads the cursor the ids handed out are
\* pairwise distinct and fill the range from the first cursor up to the
\* last one returned.
C6_RunIds ==
  seg_pc = "returned" =>
    LET n == Len(SegRuns)
    IN  /\ Len(SegInfo) = n
        /\ {SegInfo[i].run_id : i \in 1..n} = seg_cursor..(seg_cursor + n - 1)
        /\ seg_out.run_id_current = seg_cursor + n
        /\ (seg_line = <<>> => SegRuns = <<>> /\ seg_out.run_id_current = seg_cursor)
        /\ \A i, j \in 1..Len(seg_ids) : i # j => seg_ids[i] # seg_ids[j]
        /\ {seg_ids[i] : i \in 1..Len(seg_ids)} = 0..(seg_out.run_id_current - 1)

\* A second call, of several runs, whose cursor the first call moved.
C6_Witness ==
  /\ seg_pc = "returned"
  /\ seg_calls = 2
  /\ seg_cursor >= 2
  /\ Len(SegRuns) >= 2

\* C7 as stated: every returned run (text t, start s) of a line L is the
\* slice L[s : s+len(t)], so that line start + run start + cluster is the
\* place in the source of the character run_text[cluster].
C7_RunIsSliceOfLine ==
  seg_pc = "returned" =>
    \A i \in 1..Len(SegRuns) :
      SubSeq(seg_line, SegRuns[i].index + 1, SegRuns[i].index + Len(SegRuns[i].text))
        = SegRuns[i].text

(***************************************************************************)
(* Properties of the layout request, checked under Spec.                   *)
(***************************************************************************)
LogStable(k) == ids_stable_idx(glyph_log[k].ids)
LogClusterSizes == [k \in 1..Len(glyph_log) |-> glyph_log[k].clustersize]

\* C2: the stable_idx written into successive id lists never decreases; the
\* one written for a glyph is the sum of the cluster sizes of the glyphs
\* before it plus one for each line ended before it, and so is the running
\* stable_idx: it moves by the cluster size after a glyph, by 1 after a line,
\* and by nothing else.
C2_StableIdxAdvance ==
  /\ \A k \in 1..(Len(glyph_log) - 1) : LogStable(k) <= LogStable(k + 1)
  /\ \A k \in 1..Len(glyph_log) :
       LogStable(k) = SumSeq(SubSeq(LogClusterSizes, 1, k - 1))
                        + ids_line_id(glyph_log[k].ids)
  /\ stable_idx = SumSeq(LogClusterSizes) + line_id

\* A finished request of two lines in which a glyph of a reversed run has a
\* cluster size other than 1.
C2_Witness ==
  /\ pc = "done"
  /\ line_id >= 2
  /\ \E k \in 1..Len(glyph_log) :
       glyph_log[k].reversed /\ glyph_log[k].clustersize # 1

RECURSIVE expected_skeleton(_, _, _, _)
expected_skeleton(text, i, line, glyphs) ==
  IF i >= Len(text) THEN <<>>
  ELSE IF text[i + 1] = "\n"
       THEN <<<<"line", line + 1, 0, 0, 0>>>>
              \o expected_skeleton(text, i + 1, line + 1, glyphs)
       ELSE <<<<"glyph", line, i, glyphs, ord(text[i + 1])>>>>
              \o expected_skeleton(text, i + 1, line, glyphs + 1)

ExpectedSkeleton(text) ==
  <<<<"block", 0, 0, 0, 0>>, <<"line", 0, 0, 0, 0>>>>
    \o expected_skeleton(text, 0, 0, 0)

SkeletonAsBuilt ==
  [p \in 1..Len(points) |->
     CASE points[p].skeltype = "block" -> <<"block", 0, 0, 0, 0>>
       [] points[p].skeltype = "line" -> <<"line", points[p].ids[1], 0, 0, 0>>
       [] OTHER -> <<points[p].skeltype, ids_line_id(points[p].ids),
                     ids_stable_idx(points[p].ids), ids_true_idx(points[p].ids),
                     ids_codepoint_lazy(points[p].ids)>>]

\* Bidi segmentation off, variation off, and every run shaped so far into
\* one glyph per character in logical order.
PlainRequest ==
  /\ ~use_bidi_segmentation
  /\ ~varying_per_glyph
  /\ \A k \in 1..Len(glyph_log) :
       glyph_log[k].run_clusters
         = [j \in 1..Len(glyph_log[k].run_text) |-> j - 1]

C8_ClusterSizeIsCoverage ==
  \A k \in 1..Len(glyph_log) :
    LET e == glyph_log[k]
        same == {j \in 1..Len(e.run_clusters) : e.run_clusters[j] = e.cluster}
        larger == {e.run_clusters[j] : j \in 1..Len(e.run_clusters)}
                    \cap ((e.cluster + 1)..Len(e.run_text))
        next_larger == IF larger = {} THEN Len(e.run_text)
                       ELSE CHOOSE c \in larger : \A d \in larger : c <= d
    IN  Cardinality(same) = 1 => e.clustersize = next_larger - e.cluster

\* C9 as stated: an extension point hangs from a glyph point of the same
\* line and run that carries the same source_idx.
C9_ExtensionOnOwnCluster ==
  \A p \in 1..Len(points) :
    points[p].skeltype = "glyphextension" =>
      LET target == points[points[p].parent]
      IN  /\ target.skeltype = "glyph"
          /\ ids_line_id(target.ids) = ids_line_id(points[p].ids)
          /\ ids_run_id(target.ids) = ids_run_id(points[p].ids)
          /\ ids_source_idx(target.ids) = ids_source_idx(points[p].ids)

SameIdentity(j, k) ==
  /\ ids_gid(glyph_log[j].ids) = ids_gid(glyph_log[k].ids)
  /\ glyph_log[j].variations = glyph_log[k].variations

RECURSIVE SumCounts(_, _)
SumCounts(counts, keys) ==
  IF keys = {} THEN 0
  ELSE LET h == CHOOSE x \in keys : TRUE
       IN  counts[h] + SumCounts(counts, keys \ {h})

\* C3 as stated, for a str hash without collisions: there are as many
\* geometry records as keys in the dedup map, the reference counts sum to
\* the number of glyphs processed, and in the finished request every glyph
\* that repeats an earlier glyph id under the same variation coordinates
\* has a skeleton point but no geometry record.
C3_OneOutlinePerIdentity ==
  hashseed = 0 =>
    /\ Len(glyphpolys) = Cardinality(DOMAIN unique_glyphs)
    /\ SumCounts(unique_glyphs, DOMAIN unique_glyphs) = Len(glyph_log)
    /\ pc = "done" =>
         \A k \in 1..Len(glyph_log) :
           (\E j \in 1..(k - 1) : SameIdentity(j, k)) =>
             /\ \A g \in 1..Len(glyphpolys) : glyphpolys[g] # glyph_log[k].ids
             /\ \E p \in 1..Len(points) : points[p].ids = glyph_log[k].ids

\* The cluster sizes of the glyphs processed before glyph k in k's line.
RECURSIVE SizesEarlierInLine(_, _)
SizesEarlierInLine(k, j) ==
  IF j >= k THEN 0
  ELSE (IF ids_line_id(glyph_log[j].ids) = ids_line_id(glyph_log[k].ids)
        THEN glyph_log[j].clustersize ELSE 0)
         + SizesEarlierInLine(k, j + 1)

\* C11 as stated: the line_idx of a glyph is the sum of the cluster sizes of
\* the glyphs processed before it in the same line, over all runs of the
\* line.
C11_LineIdxCountsWholeLine ==
  \A k \in 1..Len(glyph_log) :
    ids_line_idx(glyph_log[k].ids) = SizesEarlierInLine(k, 1)

\* C12 as stated: a glyph whose glyph id and variation coordinates differ
\* from those of every glyph before it gets a geometry record of its own,
\* whatever the hash returns.
C12_DistinctShapesNeverShare ==
  \A k \in 1..Len(glyph_log) :
    (\A j \in 1..(k - 1) : ~SameIdentity(j, k)) =>
      \E g \in 1..Len(glyphpolys) : glyphpolys[g] = glyph_log[k].ids

(***************************************************************************)
(* Further properties of line_to_run_segments.                             *)
(***************************************************************************)
\* All characters of the line resolve to levels of one parity.
SingleParity(line) ==
  /\ line # <<>>
  /\ LET stored == storage_chars(line)
     IN  /\ Len(stored) = Len(line)
         /\ \A k \in 1..Len(stored) : stored[k].level % 2 = stored[1].level % 2

BaseDirection(line) == IF get_base_level(line) % 2 = 1 THEN "R" ELSE "L"

InfoShape(info) == [i \in 1..Len(info) |-> [odd |-> info[i].odd, isRTL |-> info[i].isRTL]]

\* C14 as stated: a call on a line, whatever cursor it was given, returns
\* the runs (texts, directions, levels, starts, order) that a call on the
\* same line with a fresh cursor returns, and the two results differ in the
\* run ids only: the run_info entries and the returned cursor are those of
\* the other call moved by the difference of the cursors.
C14_SameRunsForSameLine ==
  seg_pc = "returned" =>
    LET again == line_to_run_segments(seg_line, 0, <<>>)
    IN  /\ SegRuns = again.reordered_segments
        /\ InfoShape(SegInfo) = InfoShape(again.run_info)
        /\ \A i \in 1..Len(SegInfo) :
             SegInfo[i].run_id = again.run_info[i].run_id + seg_cursor
        /\ seg_out.run_id_current = again.run_id_current + seg_cursor

\* C15 as stated: the returned run_info has one entry per returned run, and
\* entry i carries a run id of this call, the odd flag of run i (1 exactly
\* when its direction is R) and the base flag of the line, whether or not
\* the caller passed a run_info list, in this call or in an earlier one.
C15_RunInfoMatchesRuns ==
  seg_pc = "returned" =>
    /\ Len(SegInfo) = Len(SegRuns)
    /\ \A i \in 1..Len(SegInfo) :
         i <= Len(SegRuns) =>
           /\ SegInfo[i].odd = (IF SegRuns[i].dir = "R" THEN 1 ELSE 0)
           /\ SegInfo[i].isRTL = get_base_level(seg_line) % 2
           /\ SegInfo[i].run_id \in seg_cursor..(seg_out.run_id_current - 1)

\* The characters of run i as storage['chars'] holds them, with their levels.
RunLevels(stored, i) ==
  {stored[StoredOffset(i) + k].level : k \in 1..Len(SegRuns[i].text)}

\* C16 as stated: the level field of a run is the resolved level of its
\* characters, and the direction is R exactly when it is odd.
C16_LevelIsResolvedLevel ==
  seg_pc = "returned" =>
    LET stored == storage_chars(seg_line)
    IN  /\ Len(stored) = Len(seg_line)
        /\ \A i \in 1..Len(SegRuns) :
             /\ SegRuns[i].value \in RunLevels(stored, i)
             /\ (SegRuns[i].dir = "R") <=> (SegRuns[i].value % 2 = 1)

\* C16 as amended: the level field of a run is the parity, 0 or 1, that the
\* resolved levels of all its characters share, and the direction is R
\* exactly when it is 1.
C16_LevelIsParity ==
  seg_pc = "returned" =>
    LET stored == storage_chars(seg_line)
    IN  /\ Len(stored) = Len(seg_line)
        /\ \A i \in 1..Len(SegRuns) :
             /\ SegRuns[i].value \in {0, 1}
             /\ \A l \in RunLevels(stored, i) : l % 2 = SegRuns[i].value
             /\ (SegRuns[i].dir = "R") <=> (SegRuns[i].value = 1)

\* A run of a number at level 2 in a right-to-left line, next to a run of
\* direction R.
C16_Witness ==
  /\ seg_pc = "returned"
  /\ get_base_level(seg_line) = 1
  /\ LET stored == storage_chars(seg_line)
     IN  /\ Len(stored) = Len(seg_line)
         /\ \E i \in 1..Len(SegRuns) :
              2 \in RunLevels(stored, i) /\ SegRuns[i].value = 0
  /\ \E i \in 1..Len(SegRuns) : SegRuns[i].dir = "R"

(***************************************************************************)
(* Properties of the pens, checked under PenSpec.                          *)
(***************************************************************************)
PenStride == IF bezier_order = 3 THEN 4 ELSE 6

SegmentOps == {"moveTo", "lineTo", "qCurveTo", "curveTo"}

ClosePositions == {i \in 1..Len(pen_log) : pen_log[i].op = "closePath"}

\* The position in pen_log of the r-th closePath, 0 for r = 0.
ClosePosition(r) ==
  IF r = 0 THEN 0
  ELSE CHOOSE i \in ClosePositions :
         Cardinality({j \in ClosePositions : j < i}) = r - 1

\* The calls made after closePath number r and before the next one.
CallsAfterClose(r) ==
  LET lo == ClosePosition(r)
      later == {i \in ClosePositions : i > lo}
      hi == IF later = {} THEN Len(pen_log) + 1
            ELSE CHOOSE i \in later : \A j \in later : i <= j
  IN  SubSeq(pen_log, lo + 1, hi - 1)

\* The anchor point of a moveTo or lineTo in every slot of a segment.
RepeatedAnchor(pt) == [k \in 1..PenStride |-> pt[((k - 1) % 2) + 1]]

\* floats is one segment of PenStride floats for each of the calls, in call
\* order, that of a moveTo or lineTo being its anchor point repeated.
SegmentsOf(floats, calls) ==
  /\ Len(floats) = PenStride * Len(calls)
  /\ \A j \in 1..Len(calls) :
       /\ calls[j].op \in SegmentOps
       /\ calls[j].op \in {"moveTo", "lineTo"} =>
            SubSeq(floats, (j - 1) * PenStride + 1, j * PenStride)
              = RepeatedAnchor(calls[j].pts[1])

\* C17 as stated: there are as many points as closePath calls, the record
\* written to point r is made of the segments of the calls since the
\* closePath before, and a closePath leaves the accumulator empty, which
\* then holds the segments of the calls made since.  A call the pen does
\* not support (curveTo on the quadratic pen, endPath) raises and adds
\* nothing.
C17_OneRecordPerClosePath ==
  pen_pc # "idle" =>
    /\ Len(geo_points) = Cardinality(ClosePositions)
    /\ \A r \in 1..Len(geo_points) :
         /\ geo_points[r].written
         /\ SegmentsOf(geo_points[r].ctrlpts, CallsAfterClose(r - 1))
    /\ LET open == CallsAfterClose(Len(geo_points))
       IN  SegmentsOf(ptsset, SelectSeq(open, LAMBDA c : ~c.raised))

LastCall == pen_log[Len(pen_log)]
LastSegment == SubSeq(ptsset, Len(ptsset) - 5, Len(ptsset))

\* C18 as stated: qCurveTo(control, end) on the cubic pen appends
\* [control, control, end].
C18_ControlInBothSlots ==
  (bezier_order = 4 /\ pen_log # <<>> /\ LastCall.op = "qCurveTo") =>
    LastSegment = LastCall.pts[1] \o LastCall.pts[1] \o LastCall.pts[2]

\* C18 as amended: qCurveTo(control, end) on the cubic pen appends
\* [control, end, end].
C18_EndInLastTwoSlots ==
  (bezier_order = 4 /\ pen_log # <<>> /\ LastCall.op = "qCurveTo") =>
    LastSegment = LastCall.pts[1] \o LastCall.pts[2] \o LastCall.pts[2]

\* A cubic pen whose last call, after another segment, was a qCurveTo with a
\* control point that is not the end point.
C18_Witness ==
  /\ bezier_order = 4
  /\ Len(pen_log) >= 2
  /\ LastCall.op = "qCurveTo"
  /\ LastCall.pts[1] # LastCall.pts[2]

(***************************************************************************)
(* Properties of the size record, checked under SizeSpec.                  *)
(***************************************************************************)
Usable(field) == field.has /\ field.v # 0

\* The first present and non-zero value of the chain vmtx entry, OS/2 cap
\* height, OS/2 typographic ascender, 750.
ChainHeight ==
  IF vmtx.table /\ Usable(vmtx.entry) THEN vmtx.entry.v
  ELSE IF os2.table /\ Usable(os2.sCapHeight) THEN os2.sCapHeight.v
  ELSE IF os2.table /\ Usable(os2.sTypoAscender) THEN os2.sTypoAscender.v
  ELSE 750

\* C19 as stated: whatever tables and fields the font has, the computation
\* of the height does not raise, and the height in the size record is the
\* first present and non-zero value of the chain, so it is not 0.
C19_HeightFallbackChain ==
  ~recovery_raises(per_glyph_mode, font_using_kern, reprocess_for_glyphswap,
                   reshape_run, reshape_minimal) =>
    /\ size_pc # "raised"
    /\ size_pc = "done" => (gsz[2] = ChainHeight /\ gsz[2] # 0)

\* C20 as stated: with kerning active the size record has four values, the
\* third being the unkerned advance and the fourth the height, in both
\* variation modes.
C20_SecondPairWheneverKerning ==
  (size_pc = "done" /\ font_using_kern) =>
    /\ Len(gsz) = 4
    /\ gsz[3] = PlainAdvance
    /\ gsz[4] = gsz[2]

\* C20 as amended: the size record has the second pair exactly when kerning
\* is active and the variation is global; it is then <<the shaped advance,
\* height, the unkerned advance, height>>.  In per-glyph mode the record
\* has two values, with kerning active as well.
C20_SecondPairInGlobalModeOnly ==
  size_pc = "done" =>
    IF font_using_kern /\ ~per_glyph_mode
    THEN /\ Len(gsz) = 4
         /\ gsz[1] = KernedAdvance
         /\ gsz[3] = PlainAdvance
         /\ gsz[4] = gsz[2]
    ELSE Len(gsz) = 2

\* The size record of a glyph in per-glyph mode with kerning active.
C20_Witness ==
  /\ size_pc = "done"
  /\ font_using_kern
  /\ per_glyph_mode
  /\ gsz[1] = KernedAdvance

(***************************************************************************)
(* Properties of the glyph replacement of lines 404-441, checked under     *)
(* SizeSpec.                                                               *)
(***************************************************************************)
\* The font has the tables the size record needs, so that the glyph is
\* processed to the end unless the recovery itself raises.
TablesComplete == os2.table /\ (vmtx.table => vmtx.entry.has)

\* C21 as stated: in per-glyph mode with kerning active and reprocessing
\* enabled, the glyph the rest of the loop works with has the id of the
\* original glyph (a re-shaped glyph replaces it only when the ids match),
\* and when the re-shaped glyph does not match the advance is the unkerned
\* advance.
C21_ReplacedOnlyOnSameId ==
  (size_pc = "done" /\ per_glyph_mode /\ font_using_kern
     /\ reprocess_for_glyphswap) =>
    /\ glyph_gid = OriginalGid
    /\ reshape_run = "other" => gsz[1] = PlainAdvance

\* C22 as stated: during the kerning recovery a lookup that finds no glyph,
\* in the re-shaped run or in the re-shaped minimal text, does not end the
\* request: the glyph is processed to the end, it is the original glyph,
\* and its advance is the unkerned advance.
C22_FailedLookupFallsBack ==
  (/\ size_pc \in {"done", "raised"}
   /\ TablesComplete
   /\ per_glyph_mode /\ font_using_kern
   /\ \/ reprocess_for_glyphswap /\ reshape_run = "none"
      \/ needs_run(reprocess_for_glyphswap, reshape_run)
           /\ reshape_minimal = "none") =>
    /\ size_pc = "done"
    /\ glyph_gid = OriginalGid
    /\ gsz[1] = PlainAdvance

(***************************************************************************)
(* Properties of the layout request on failing or degenerate input,        *)
(* checked under Spec.                                                     *)
(***************************************************************************)
\* C23: in per-glyph mode a glyph whose stable_idx lies past the end of the
\* per-position data is processed with the global variation coordinates,
\* and its glyph_hash is the hash a glyph of the same id gets under global
\* variation; the request goes on to the next glyph.
C23_MissingPointUsesGlobal ==
  \A k \in 1..Len(glyph_log) :
    LET e == glyph_log[k]
    IN  (varying_per_glyph /\ ids_stable_idx(e.ids) >= Len(hpoints)) =>
          /\ e.variations = variations
          /\ ids_glyph_hash(e.ids)
               = hash(hashseed, dictstring_of(ids_gid(e.ids), variations))

\* A finished request in per-glyph mode whose first glyph took its weight
\* from the per-position data and whose later glyph found no data.
C23_Witness ==
  /\ pc = "done"
  /\ varying_per_glyph
  /\ Len(hpoints) = 1 /\ hpoints[1] # variations.wght
  /\ \E j, k \in 1..Len(glyph_log) :
       /\ j < k
       /\ glyph_log[j].variations # variations
       /\ ids_stable_idx(glyph_log[k].ids) >= Len(hpoints)
       /\ glyph_log[k].variations = variations

\* C24 as stated: a run for which the shaper returned no glyph does not end
\* the request.
C24_EmptyRunNoRaise ==
  (\E r \in 1..Len(glyph_runs) : glyph_runs[r].glyphs = <<>>) => pc # "raised"

\* C26 as stated: a request that raised left no record in the output
\* geometry.
C26_NothingWrittenOnRaise ==
  pc = "raised" => (points = <<>> /\ glyphpolys = <<>>)

\* Every line of the text is empty or a single left-to-right run.
LeftToRightText == \A i \in 1..Len(src_text) : src_text[i] \in {"a", "\n"}

\* C27 as stated: in a text whose non-empty lines are each a single
\* left-to-right run, the run_id of every glyph is its line_id, with bidi
\* segmentation on or off.
C27_RunIdIsLineId ==
  LeftToRightText =>
    \A k \in 1..Len(glyph_log) :
      ids_run_id(glyph_log[k].ids) = ids_line_id(glyph_log[k].ids)

\* The skeleton points that stand for a glyph.
GlyphNodes ==
  {p \in 1..Len(points) : points[p].skeltype \in {"glyph", "glyphextension"}}

\* C29 as stated: when the request has completed, the glyphs processed and
\* the glyph and glyph extension points are equally many, and no glyph is
\* left in the queue.
C29_OneNodePerGlyph ==
  pc = "done" => (Cardinality(GlyphNodes) = true_idx /\ glyphqueue = <<>>)

\* C30 as stated: when a line starts, stable_idx is linestart.
C30_LineStartsAtCursor ==
  pc = "line" => stable_idx = linestart

(***************************************************************************)
(* Properties of the pen's constructor, checked under PenSpec.             *)
(***************************************************************************)
\* C28 as stated: a pen constructed without an attrib_ctrlpts argument holds
\* a ctrlpts attribute once constructed, whether or not its geometry had
\* one.
C28_AttributeNeverUnset ==
  (pen_pc # "idle" /\ ~attrib_passed) => attrib_ctrlpts # "None"

(***************************************************************************)
(* Properties of the font of a request, checked under FontSpec.            *)
(***************************************************************************)
\* C25 as stated: a request whose font could not be fetched, because the
\* path does not exist, the file does not load or its type is unknown, ends
\* with the node error that names the font path, and with nothing added to
\* the output geometry.
C25_UnusableFontIsNodeError ==
  font_pc = "raised" =>
    /\ font_error = [kind |-> "NodeError", names_path |-> TRUE]
    /\ geo_attribs = <<>>

====
